---- MODULE Spec2Model ----
(***************************************************************************)
(* The air-quality notebook (notebooks/pm-a-new-function_filled.ipynb):    *)
(* read a long-format CSV, drop incomplete rows, parse the timestamps,     *)
(* index by them, pivot on Species, resample to weekly means, flag         *)
(* hazardous weeks, make the output folder and write WeeklyMeanAQ.csv.     *)
(* One action per notebook cell; the cells are also the body that          *)
(* process_csv_file wraps.  Spec runs the cells on bounded input files;    *)
(* SpecFS varies the output folder and the disk, SpecFill adds the         *)
(* fill_with substitution, SpecTwo runs two calls on one disk, SpecInputs  *)
(* feeds files the cells cannot process.  SpecNotebook runs the code cells *)
(* of the diamond notebook in order, tracking the names they bind.         *)
(*                                                                         *)
(* Values are exact rationals [num, den]; float64 rounding is not          *)
(* modelled.  A field that may be missing is a sequence of length 0 (NaN / *)
(* NaT) or 1.  A parsed timestamp is a number of hours since Monday 00:00  *)
(* of week 0.                                                              *)
(***************************************************************************)
EXTENDS Integers, Sequences, FiniteSets, TLC

VARIABLES
    pc,             \* the cell about to run
    disk,           \* the filesystem: directories and the files' contents
    df_columns,     \* the column labels of df
    df,             \* the DataFrame of the read / dropna / astype cells
    index_name,     \* the name of df's index level
    pivoted,        \* the Wide Table
    weekly_mean,    \* the Resampled Table
    output_filepath,\* the path the to_csv cell builds
    result,         \* what process_csv_file handed back
    error,          \* the exception that ended the call
    output_folder,  \* the folder the call writes into
    fill_with,      \* the value the call substitutes for zero
    peer,           \* a second call of process_csv_file on the same disk
    nb_cell,        \* diamond notebook: the code cell about to run
    nb_names,       \* diamond notebook: the names bound in the kernel
    nb_error        \* diamond notebook: the exception that stopped the run

vars == <<pc, disk, df_columns, df, index_name, pivoted, weekly_mean, output_filepath,
          result, error, output_folder, fill_with, peer, nb_cell, nb_names,
          nb_error>>

\* What no step of the first call changes: its arguments, the second call and
\* the other notebook
outside == <<output_folder, fill_with, peer, nb_cell, nb_names, nb_error>>

----------------------------------------------------------------------------
\* Bounds and program constants

MaxRows == 4

MaxShuffledRows == 3

HoursPerDay == 24

DaysPerWeek == 7

HazardThreshold == 50

WeekHours == DaysPerWeek * HoursPerDay

----------------------------------------------------------------------------
\* Missing values

NA == <<>>

Some(v) == <<v>>

IsNA(x) == x = <<>>

Get(x) == x[1]

----------------------------------------------------------------------------
\* Exact rationals for the means

RECURSIVE GCD(_, _)
GCD(a, b) == IF b = 0 THEN a ELSE GCD(b, a % b)

Frac(n, d) == LET g == GCD(n, d) IN [num |-> n \div g, den |-> d \div g]

FracAdd(a, b) == Frac(a.num * b.den + b.num * a.den, a.den * b.den)

FracDivInt(a, k) == Frac(a.num, a.den * k)

FracOfInt(n) == [num |-> n, den |-> 1]

FracGt(a, n) == a.num > n * a.den

RECURSIVE FracSum(_)
FracSum(s) == IF s = <<>> THEN FracOfInt(0)
              ELSE FracAdd(Head(s), FracSum(Tail(s)))

\* Series.mean() with skipna: NaN for no value at all
MeanOf(s) == IF s = <<>> THEN NA ELSE Some(FracDivInt(FracSum(s), Len(s)))

----------------------------------------------------------------------------
\* The input file: long-format rows (timestamp, category, value, other column)

Columns == {"ReadingDateTime", "Species", "Value", "Units"}

Row(t, s, v, u) ==
    [ReadingDateTime |-> t, Species |-> s, Value |-> v, Units |-> u]

\* A timestamp as written in the file: day and hour, a bare date, or text
\* that is no date at all.
DateTimeText(d, h) == Some([fmt |-> "datetime", d |-> d, h |-> h])

DateText(d) == Some([fmt |-> "date", d |-> d, h |-> 0])

Garbled == Some([fmt |-> "text", d |-> 0, h |-> 0])

\* Tuesday of week 0 (written two ways), Sunday 13:00 of week 0, and
\* Tuesday 13:00 of week 2.
T1 == DateTimeText(1, 0)

T1Date == DateText(1)

T2 == DateTimeText(6, 13)

T3 == DateTimeText(15, 13)

ugm3 == Some("ug m-3")

\* The rows a bounded input file is made of: complete rows, a duplicate
\* (timestamp, category) pair, rows missing one field, unparsable timestamps.
RowPool ==
    { Row(T1, Some("NOX"), Some(40), ugm3),
      Row(T1, Some("PM10"), Some(10), ugm3),
      Row(T2, Some("NOX"), Some(60), ugm3),
      Row(T2, Some("PM10"), Some(12), ugm3),
      Row(T3, Some("NOX"), Some(60), ugm3),
      Row(T1Date, Some("NOX"), Some(60), ugm3),
      Row(T3, Some("PM10"), Some(10), NA),
      Row(NA, Some("PM10"), Some(12), ugm3),
      Row(T3, Some("PM10"), NA, ugm3),
      Row(Garbled, Some("NOX"), Some(40), ugm3) }

\* The input files of n rows
TablesOfLen(n) == [1..n -> RowPool]

\* The column labels of a file: those of its rows
Header(t) == IF t = <<>> THEN Columns ELSE DOMAIN t[1]

SeqToSet(s) == {s[i] : i \in 1..Len(s)}

----------------------------------------------------------------------------
\* df.dropna(how='any', axis=0)

\* dropna(subset=['Value']) in place of every column
ValuePresent(r) == ~IsNA(r.Value)

RowComplete(r) == \A c \in DOMAIN r : ~IsNA(r[c])

\* Rows removed while the table is walked: the row after a removed one is
\* never looked at
RECURSIVE DropNaSkipping(_)
DropNaSkipping(t) ==
    IF t = <<>> THEN <<>>
    ELSE IF RowComplete(Head(t)) THEN <<Head(t)>> \o DropNaSkipping(Tail(t))
    ELSE IF Len(t) = 1 THEN <<>>
    ELSE <<t[2]>> \o DropNaSkipping(Tail(Tail(t)))

RECURSIVE DropNa(_)
DropNa(t) ==
    IF t = <<>> THEN <<>>
    ELSE IF RowComplete(Head(t)) THEN <<Head(t)>> \o DropNa(Tail(t))
    ELSE DropNa(Tail(t))

----------------------------------------------------------------------------
\* df['ReadingDateTime'].astype('datetime64')

\* df[label], index=[label], values=label: a label that is no column
MissingColumn(columns, labels) == ~(labels \subseteq columns)

Parsable(raw) == raw.fmt \in {"datetime", "date"}

ParseDateTime(raw) ==
    IF raw.fmt = "datetime" THEN raw.d * HoursPerDay + raw.h
    ELSE raw.d * HoursPerDay

\* Only the first row is looked at
AsTypeFailsOnHead(t) ==
    /\ t # <<>>
    /\ ~IsNA(t[1].ReadingDateTime)
    /\ ~Parsable(Get(t[1].ReadingDateTime))

AsTypeFails(t) ==
    \E i \in 1..Len(t) :
        /\ ~IsNA(t[i].ReadingDateTime)
        /\ ~Parsable(Get(t[i].ReadingDateTime))

AsType(t) ==
    [i \in 1..Len(t) |->
        [t[i] EXCEPT !.ReadingDateTime =
            IF IsNA(@) THEN NA ELSE Some(ParseDateTime(Get(@)))]]

----------------------------------------------------------------------------
\* pd.pivot_table(df, index=['ReadingDateTime'], columns=['Species'],
\*                values='Value')     (aggfunc defaults to the mean)

EmptyTable == [index |-> <<>>, columns |-> <<>>, cell |-> <<>>]

\* groupby leaves out rows with a missing key; a group with no value is
\* dropped
Keyed(t) ==
    {i \in 1..Len(t) : /\ ~IsNA(t[i].ReadingDateTime)
                       /\ ~IsNA(t[i].Species)
                       /\ ~IsNA(t[i].Value)}

RECURSIVE SortAsc(_)
SortAsc(S) ==
    IF S = {} THEN <<>>
    ELSE LET m == CHOOSE x \in S : \A y \in S : x <= y
         IN  <<m>> \o SortAsc(S \ {m})

\* The category names in sorted order
SpeciesSorted == <<"NOX", "PM10">>

\* aggfunc='first' in place of the mean: only the first value of a group
RECURSIVE GroupValuesFirst(_, _, _)
GroupValuesFirst(t, ts, sp) ==
    IF t = <<>> THEN <<>>
    ELSE LET r == Head(t)
             mine == /\ ~IsNA(r.ReadingDateTime) /\ Get(r.ReadingDateTime) = ts
                     /\ ~IsNA(r.Species) /\ Get(r.Species) = sp
                     /\ ~IsNA(r.Value)
         IN  IF mine THEN <<FracOfInt(Get(r.Value))>>
             ELSE GroupValuesFirst(Tail(t), ts, sp)

RECURSIVE GroupValues(_, _, _)
GroupValues(t, ts, sp) ==
    IF t = <<>> THEN <<>>
    ELSE LET r == Head(t)
             mine == /\ ~IsNA(r.ReadingDateTime) /\ Get(r.ReadingDateTime) = ts
                     /\ ~IsNA(r.Species) /\ Get(r.Species) = sp
                     /\ ~IsNA(r.Value)
         IN  (IF mine THEN <<FracOfInt(Get(r.Value))>> ELSE <<>>)
                 \o GroupValues(Tail(t), ts, sp)

\* sort=False: the timestamps in the order the file first shows them
RECURSIVE FirstSeen(_, _)
FirstSeen(t, seen) ==
    IF t = <<>> THEN <<>>
    ELSE LET ts == Head(t).ReadingDateTime
             new == /\ ~IsNA(ts) /\ Get(ts) \notin seen
                    /\ ~IsNA(Head(t).Species) /\ ~IsNA(Head(t).Value)
         IN  IF new THEN <<Get(ts)>> \o FirstSeen(Tail(t), seen \cup {Get(ts)})
             ELSE FirstSeen(Tail(t), seen)

PivotIndexUnsorted(t) == FirstSeen(t, {})

PivotIndex(t) == SortAsc({Get(t[i].ReadingDateTime) : i \in Keyed(t)})

PivotColumns(t) ==
    SelectSeq(SpeciesSorted,
              LAMBDA sp : sp \in {Get(t[i].Species) : i \in Keyed(t)})

PivotTable(t) ==
    LET idx == PivotIndex(t)
        cols == PivotColumns(t)
    IN  [index |-> idx,
         columns |-> cols,
         cell |-> [k \in SeqToSet(idx) \X SeqToSet(cols) |->
                      MeanOf(GroupValues(t, k[1], k[2]))]]

----------------------------------------------------------------------------
\* pivoted.resample('W', label='right').mean()
\* 'W' is the week that closes on Sunday; the bins are closed on the right.

Normalize(ts) == (ts \div HoursPerDay) * HoursPerDay

\* 0 = Monday ... 6 = Sunday
Weekday(ts) == (ts \div HoursPerDay) % DaysPerWeek

SeqMin(s) == CHOOSE x \in SeqToSet(s) : \A y \in SeqToSet(s) : x <= y

SeqMax(s) == CHOOSE x \in SeqToSet(s) : \A y \in SeqToSet(s) : x >= y

\* first.normalize() - Week(weekday=6): the last Sunday before that day
FirstEdge(idx) ==
    LET f == Normalize(SeqMin(idx))
    IN  f - HoursPerDay * (IF Weekday(f) = DaysPerWeek - 1 THEN DaysPerWeek
                           ELSE Weekday(f) + 1)

\* last.normalize() + Week(weekday=6): the first Sunday after that day
LastEdge(idx) ==
    LET l == Normalize(SeqMax(idx))
    IN  l + HoursPerDay * (IF Weekday(l) = DaysPerWeek - 1 THEN DaysPerWeek
                           ELSE DaysPerWeek - 1 - Weekday(l))

\* date_range(first, last, freq='W'), less a last bin that would start
\* after the last reading (readings during the closing Sunday belong to the
\* bin that Sunday closes)
Binner(idx) ==
    LET first == FirstEdge(idx)
        n == (LastEdge(idx) - first) \div WeekHours + 1
        all == [i \in 1..n |-> first + (i - 1) * WeekHours]
    IN  IF n >= 2 /\ all[n - 1] + HoursPerDay > SeqMax(idx)
        THEN SubSeq(all, 1, n - 1)
        ELSE all

\* A group-by on the week in place of resample: only the weeks with readings
BinLabelsOccupied(idx) ==
    IF idx = <<>> THEN <<>>
    ELSE SelectSeq(Tail(Binner(idx)),
                   LAMBDA l : \E ts \in SeqToSet(idx) :
                                 /\ l - WeekHours + HoursPerDay <= ts
                                 /\ ts < l + HoursPerDay)

\* label='left' in place of label='right': a bin named by the Sunday before it
BinLabelsLeft(idx) ==
    IF idx = <<>> THEN <<>> ELSE SubSeq(Binner(idx), 1, Len(Binner(idx)) - 1)

\* label='right': a bin is named by the Sunday that closes it
BinLabels(idx) == IF idx = <<>> THEN <<>> ELSE Tail(Binner(idx))

\* The bin closed by Sunday `label` holds the readings after the end of the
\* Sunday before and up to the end of `label` itself
InBin(ts, label) ==
    /\ label - WeekHours + HoursPerDay <= ts
    /\ ts < label + HoursPerDay

RECURSIVE BinValues(_, _, _, _)
BinValues(wide, idx, label, col) ==
    IF idx = <<>> THEN <<>>
    ELSE LET v == wide.cell[<<Head(idx), col>>]
         IN  (IF InBin(Head(idx), label) /\ ~IsNA(v) THEN <<Get(v)>> ELSE <<>>)
                 \o BinValues(wide, Tail(idx), label, col)

Resample(wide) ==
    LET labels == BinLabels(wide.index)
    IN  [index |-> labels,
         columns |-> wide.columns,
         cell |-> [k \in SeqToSet(labels) \X SeqToSet(wide.columns) |->
                      MeanOf(BinValues(wide, wide.index, k[1], k[2]))]]

----------------------------------------------------------------------------
\* weekly_mean['Hazardous'] = weekly_mean['NOX'] > 50.

FlagFails(wm) == "NOX" \notin SeqToSet(wm.columns)

\* >= in place of >
AboveOrEqual(v, threshold) ==
    ~IsNA(v) /\ Get(v).num >= threshold * Get(v).den

\* ~(NOX <= 50.): true for NaN as well
NotAtMost(v, threshold) == IsNA(v) \/ FracGt(Get(v), threshold)

\* A comparison with NaN is False
Above(v, threshold) == ~IsNA(v) /\ FracGt(Get(v), threshold)

Flag(wm) ==
    LET cols == IF "Hazardous" \in SeqToSet(wm.columns) THEN wm.columns
                ELSE Append(wm.columns, "Hazardous")
    IN  [index |-> wm.index,
         columns |-> cols,
         cell |-> [k \in SeqToSet(wm.index) \X SeqToSet(cols) |->
                      IF k[2] = "Hazardous"
                      THEN Above(wm.cell[<<k[1], "NOX">>], HazardThreshold)
                      ELSE wm.cell[k]]]

\* fill_with: "Value to substitute for zero" (docstring of process_csv_file).
\* A cell of text in place of a number
Blank == [text |-> " "]

IsZero(v) == ~IsNA(v) /\ Get(v).num = 0

\* fillna in place of the substitution for zero
FillMissing(wm, value) ==
    [wm EXCEPT !.cell = [k \in DOMAIN wm.cell |->
                            IF k[2] # "Hazardous" /\ IsNA(wm.cell[k])
                            THEN value ELSE wm.cell[k]]]

\* The category means that are zero become the value
FillZero(wm, value) ==
    [wm EXCEPT !.cell = [k \in DOMAIN wm.cell |->
                            IF k[2] # "Hazardous" /\ IsZero(wm.cell[k])
                            THEN value ELSE wm.cell[k]]]

----------------------------------------------------------------------------
\* The transform cells from dropna to the flag, applied to a table in one go

TransformFails(t) ==
    \/ AsTypeFails(DropNa(t))
    \/ FlagFails(Resample(PivotTable(AsType(DropNa(t)))))

Transform(t) == Flag(Resample(PivotTable(AsType(DropNa(t)))))

----------------------------------------------------------------------------
\* The filesystem and the paths of the notebook.  A path is the sequence of
\* its components.

DataFilepath == <<"..", "data", "OxfordStreetAirQuality.csv">>

OutputFolder == <<"..", "data", "processed">>

OutputName == "WeeklyMeanAQ.csv"

Parent(path) == SubSeq(path, 1, Len(path) - 1)

Ancestors(path) == {SubSeq(path, 1, n) : n \in 1..Len(path)}

Exists(d, path) == path \in d.dirs \/ path \in DOMAIN d.files

\* What to_csv writes: a header line, then one line per row with the index
\* first.  A midnight timestamp is written as a bare date.
FormatDateTime(ts) ==
    IF ts % HoursPerDay = 0
    THEN [fmt |-> "date", d |-> ts \div HoursPerDay, h |-> 0]
    ELSE [fmt |-> "datetime", d |-> ts \div HoursPerDay, h |-> ts % HoursPerDay]

\* to_csv(..., index=False): the rows without their timestamps
CsvTextNoIndex(table, name) ==
    [header |-> table.columns,
     rows |-> [i \in 1..Len(table.index) |->
                 [key |-> NA,
                  fields |-> [j \in 1..Len(table.columns) |->
                                 table.cell[<<table.index[i], table.columns[j]>>]]]]]

CsvText(table, name) ==
    [header |-> <<name>> \o table.columns,
     rows |-> [i \in 1..Len(table.index) |->
                 [key |-> Some(FormatDateTime(table.index[i])),
                  fields |-> [j \in 1..Len(table.columns) |->
                                 table.cell[<<table.index[i], table.columns[j]>>]]]]]

\* A file left by an earlier run
StaleCsv == [header |-> <<"ReadingDateTime", "NOX", "Hazardous">>, rows |-> <<>>]

\* The output folder absent, or present and holding an earlier output
OutputFolders ==
    { [dirs |-> {}, files |-> <<>>],
      [dirs |-> {OutputFolder},
       files |-> Append(OutputFolder, OutputName) :> StaleCsv] }

\* The data folder with the input file `inp` (none for <<>>) next to an
\* output folder
Disk(inp, out) ==
    [dirs |-> Ancestors(Parent(DataFilepath)) \cup out.dirs,
     files |-> inp @@ out.files,
     deny_open |-> FALSE]

\* No second call
NoPeer == [pc |-> "idle", text |-> <<>>, error |-> "none"]

\* The variables beside the disk before the first cell, for a call with the
\* given arguments
Fresh(folder, fill) ==
    /\ pc = "read_csv"
    /\ df_columns = {}
    /\ df = <<>>
    /\ index_name = "RangeIndex"
    /\ pivoted = EmptyTable
    /\ weekly_mean = EmptyTable
    /\ output_filepath = NA
    /\ result = NA
    /\ error = "none"
    /\ output_folder = folder
    /\ fill_with = fill
    /\ nb_cell = 0
    /\ nb_names = {}
    /\ nb_error = "none"

----------------------------------------------------------------------------
\* The cells, in the order of the notebook

\* The input file is absent or holds up to maxRows rows
InitOn(maxRows) ==
    /\ \E out \in OutputFolders :
          \/ disk = Disk(<<>>, out)
          \/ \E n \in 0..maxRows :
                \E t \in TablesOfLen(n) : disk = Disk(DataFilepath :> t, out)
    /\ Fresh(OutputFolder, NA)
    /\ peer = NoPeer

Init == InitOn(MaxRows)

\* The shorter files, whose every reordering is tried
InitShort == InitOn(MaxShuffledRows)

Raise(e) ==
    /\ pc' = "failed"
    /\ error' = e

\* df = pd.read_csv(data_filepath)
read_csv ==
    /\ pc = "read_csv"
    /\ UNCHANGED outside
    /\ IF DataFilepath \in DOMAIN disk.files
       THEN /\ df' = disk.files[DataFilepath]
            /\ df_columns' = Header(disk.files[DataFilepath])
            /\ pc' = "dropna"
            /\ UNCHANGED error
       ELSE /\ Raise("FileNotFoundError")
            /\ UNCHANGED <<df, df_columns>>
    /\ UNCHANGED <<disk, index_name, pivoted, weekly_mean, output_filepath, result>>

\* df.dropna(how='any', axis=0, inplace=True)
dropna ==
    /\ pc = "dropna"
    /\ UNCHANGED outside
    /\ UNCHANGED df_columns
    /\ df' = DropNa(df)
    /\ pc' = "astype"
    /\ UNCHANGED <<disk, index_name, pivoted, weekly_mean, output_filepath,
                   result, error>>

\* df['ReadingDateTime'] = df['ReadingDateTime'].astype('datetime64')
astype ==
    /\ pc = "astype"
    /\ UNCHANGED outside
    /\ UNCHANGED df_columns
    /\ IF MissingColumn(df_columns, {"ReadingDateTime"})
       THEN /\ Raise("KeyError")
            /\ UNCHANGED df
       ELSE IF AsTypeFails(df)
       THEN /\ Raise("ValueError")
            /\ UNCHANGED df
       ELSE /\ df' = AsType(df)
            /\ pc' = "set_index"
            /\ UNCHANGED error
    /\ UNCHANGED <<disk, index_name, pivoted, weekly_mean, output_filepath, result>>

\* df.set_index('ReadingDateTime', inplace=True, drop=True)
set_index ==
    /\ pc = "set_index"
    /\ UNCHANGED outside
    /\ UNCHANGED df_columns
    /\ index_name' = "ReadingDateTime"
    /\ pc' = "pivot_table"
    /\ UNCHANGED <<disk, df, pivoted, weekly_mean, output_filepath, result, error>>

\* pivoted = pd.pivot_table(df, index=['ReadingDateTime'], ...)
pivot_table ==
    /\ pc = "pivot_table"
    /\ UNCHANGED outside
    /\ UNCHANGED df_columns
    /\ IF MissingColumn(df_columns, {"Species", "Value"})
       THEN /\ Raise("KeyError")
            /\ UNCHANGED pivoted
       ELSE /\ pivoted' = PivotTable(df)
            /\ pc' = "resample"
            /\ UNCHANGED error
    /\ UNCHANGED <<disk, df, index_name, weekly_mean, output_filepath, result>>

\* weekly_mean = pivoted.resample('W', label='right').mean()
\* A frame without rows resamples to a frame without rows; the flag cell then
\* finds no 'NOX' column.
resample ==
    /\ pc = "resample"
    /\ UNCHANGED outside
    /\ UNCHANGED df_columns
    /\ weekly_mean' = Resample(pivoted)
    /\ pc' = "flag"
    /\ UNCHANGED <<disk, df, index_name, pivoted, output_filepath, result, error>>

\* weekly_mean['Hazardous'] = weekly_mean['NOX'] > 50.
flag ==
    /\ pc = "flag"
    /\ UNCHANGED outside
    /\ UNCHANGED df_columns
    /\ IF FlagFails(weekly_mean)
       THEN /\ Raise("KeyError")
            /\ UNCHANGED weekly_mean
       ELSE /\ weekly_mean' = Flag(weekly_mean)
            /\ pc' = IF IsNA(fill_with) THEN "mkdir" ELSE "fill"
            /\ UNCHANGED error
    /\ UNCHANGED <<disk, df, index_name, pivoted, output_filepath, result>>

\* process_csv_file(..., fill_with=...): the substitution for zero, between
\* the flag and the write
fill ==
    /\ pc = "fill"
    /\ UNCHANGED outside
    /\ UNCHANGED df_columns
    /\ weekly_mean' = FillZero(weekly_mean, Get(fill_with))
    /\ pc' = "mkdir"
    /\ UNCHANGED <<disk, df, index_name, pivoted, output_filepath, result,
                   error>>

\* if not output_folder.exists():
mkdir ==
    /\ pc = "mkdir"
    /\ UNCHANGED outside
    /\ UNCHANGED df_columns
    /\ pc' = IF Exists(disk, output_folder) THEN "to_csv" ELSE "mkdir_parents"
    /\ UNCHANGED <<disk, df, index_name, pivoted, weekly_mean, output_filepath,
                   result, error>>

\* mkdir() without parents=True, which makes the last component only
MkdirLeaf(d, path) == [d EXCEPT !.dirs = @ \cup {path}]

\*     output_folder.mkdir(parents=True)
\* mkdir raises FileExistsError when the path is there by now
MkdirParents(d, path) == [d EXCEPT !.dirs = @ \cup Ancestors(path)]

mkdir_parents ==
    /\ pc = "mkdir_parents"
    /\ UNCHANGED outside
    /\ UNCHANGED df_columns
    /\ IF Exists(disk, output_folder)
       THEN /\ Raise("FileExistsError")
            /\ UNCHANGED disk
       ELSE /\ disk' = MkdirParents(disk, output_folder)
            /\ pc' = "to_csv"
            /\ UNCHANGED error
    /\ UNCHANGED <<df, index_name, pivoted, weekly_mean, output_filepath, result>>

\* output_filepath = output_folder / 'WeeklyMeanAQ.csv'
\* weekly_mean.to_csv(output_filepath)
\* The file name alone in place of output_folder / name
WriteFileInCwd(d, path, text) ==
    [d EXCEPT !.files = (<<path[Len(path)]>> :> text) @@ @]

\* A write that also empties the input file
WriteFileTruncatingInput(d, path, text) ==
    [d EXCEPT !.files = (path :> text) @@ (DataFilepath :> <<>>) @@ @]

WriteFile(d, path, text) == [d EXCEPT !.files = (path :> text) @@ @]

\* The file cannot be opened for writing: its folder is missing or the system
\* refuses
OpenError(d, path) ==
    IF Parent(path) \in DOMAIN d.files THEN "NotADirectoryError"
    ELSE IF Parent(path) \notin d.dirs THEN "FileNotFoundError"
    ELSE IF d.deny_open THEN "PermissionError"
    ELSE "none"

\* A handler that removes the folders left without a file
AbortRemovingEmpty(d) ==
    [d EXCEPT !.dirs = {x \in @ : \E p \in DOMAIN d.files : x \in Ancestors(p)}]

\* No cell catches an exception: nothing is cleaned up or tried again
Abort(d) == d

to_csv ==
    /\ pc = "to_csv"
    /\ UNCHANGED outside
    /\ UNCHANGED df_columns
    /\ output_filepath' = Some(Append(output_folder, OutputName))
    /\ IF OpenError(disk, Append(output_folder, OutputName)) = "none"
       THEN /\ disk' = WriteFile(disk, Append(output_folder, OutputName),
                                 CsvText(weekly_mean, index_name))
            /\ pc' = "return"
            /\ UNCHANGED error
       ELSE /\ Raise(OpenError(disk, Append(output_folder, OutputName)))
            /\ disk' = Abort(disk)
    /\ UNCHANGED <<df, index_name, pivoted, weekly_mean, result>>

\* process_csv_file hands back the path of the file it wrote
return ==
    /\ pc = "return"
    /\ UNCHANGED outside
    /\ UNCHANGED df_columns
    /\ result' = output_filepath
    /\ pc' = "done"
    /\ UNCHANGED <<disk, df, index_name, pivoted, weekly_mean, output_filepath,
                   error>>

Next ==
    \/ read_csv
    \/ dropna
    \/ astype
    \/ set_index
    \/ pivot_table
    \/ resample
    \/ flag
    \/ mkdir
    \/ mkdir_parents
    \/ to_csv
    \/ return

Spec == Init /\ [][Next]_vars

\* The same cells over the shorter input files
SpecShort == InitShort /\ [][Next]_vars

----------------------------------------------------------------------------
\* The call with its output_folder argument, on the disks it may find

MaxFsRows == 2

\* process_csv_file(filepath, output_folder=Path("../data/another_processed_data_folder/"), ...)
AnotherFolder == <<"..", "data", "another_processed_data_folder">>

\* An output folder whose parent is not there either
NestedFolder == <<"..", "results", "weekly">>

OutputFolderChoices == {OutputFolder, AnotherFolder, NestedFolder}

\* A file of the output folder that is not the output
KeptName == "notes.csv"

\* What may be at the path of the output folder before the call: nothing,
\* the parent alone, the folder empty, the folder with an earlier output, the
\* folder with another file, a regular file
FolderStates(folder) ==
    { [dirs |-> {}, files |-> <<>>],
      [dirs |-> Ancestors(Parent(folder)), files |-> <<>>],
      [dirs |-> Ancestors(folder), files |-> <<>>],
      [dirs |-> Ancestors(folder),
       files |-> Append(folder, OutputName) :> StaleCsv],
      [dirs |-> Ancestors(folder),
       files |-> Append(folder, KeptName) :> StaleCsv],
      [dirs |-> Ancestors(Parent(folder)), files |-> folder :> StaleCsv] }

InitFS ==
    /\ \E folder \in OutputFolderChoices :
          /\ Fresh(folder, NA)
          /\ \E out \in FolderStates(folder) :
                \E deny \in BOOLEAN :
                   \E n \in 0..MaxFsRows :
                      \E t \in TablesOfLen(n) :
                         disk = [Disk(DataFilepath :> t, out)
                                    EXCEPT !.deny_open = deny]
    /\ peer = NoPeer

SpecFS == InitFS /\ [][Next]_vars

----------------------------------------------------------------------------
\* The call with its fill_with argument, over input files with readings of
\* zero

MaxFillRows == 3

FillPool ==
    { Row(T1, Some("NOX"), Some(0), ugm3),
      Row(T1, Some("PM10"), Some(10), ugm3),
      Row(T2, Some("NOX"), Some(60), ugm3),
      Row(T2, Some("PM10"), Some(0), ugm3),
      Row(T3, Some("NOX"), Some(0), ugm3),
      Row(T3, Some("PM10"), Some(0), NA) }

\* fill_with=np.nan (the default) and fill_with=" "
FillChoices == {Some(NA), Some(Some(Blank))}

InitFill ==
    /\ \E value \in FillChoices :
          /\ Fresh(AnotherFolder, value)
          /\ \E out \in {[dirs |-> {}, files |-> <<>>],
                         [dirs |-> {AnotherFolder}, files |-> <<>>]} :
                \E n \in 0..MaxFillRows :
                   \E t \in [1..n -> FillPool] :
                      disk = Disk(DataFilepath :> t, out)
    /\ peer = NoPeer

NextFill ==
    \/ Next
    \/ fill

SpecFill == InitFill /\ [][NextFill]_vars

----------------------------------------------------------------------------
\* Two calls of process_csv_file with the same output folder.  The second
\* call has read its own input and holds its flagged table as the text it is
\* about to write; its steps on the shared disk are the exists() test, mkdir
\* and to_csv, each of them a system call of its own.

MaxTwoRows == 2

\* The text of the second call: the output for one of two input files
PeerTables ==
    { <<Row(T2, Some("NOX"), Some(60), ugm3)>>,
      <<Row(T1, Some("NOX"), Some(40), ugm3),
        Row(T3, Some("PM10"), Some(12), ugm3)>> }

PeerRaise(e) == peer' = [peer EXCEPT !.pc = "failed", !.error = e]

\* if not output_folder.exists():
peer_mkdir ==
    /\ peer.pc = "mkdir"
    /\ peer' = [peer EXCEPT !.pc = IF Exists(disk, output_folder)
                                   THEN "to_csv" ELSE "mkdir_parents"]
    /\ UNCHANGED <<pc, disk, df_columns, df, index_name, pivoted, weekly_mean,
                   output_filepath, result, error, output_folder, fill_with,
                   nb_cell, nb_names, nb_error>>

\*     output_folder.mkdir(parents=True)
peer_mkdir_parents ==
    /\ peer.pc = "mkdir_parents"
    /\ IF Exists(disk, output_folder)
       THEN /\ PeerRaise("FileExistsError")
            /\ UNCHANGED disk
       ELSE /\ disk' = MkdirParents(disk, output_folder)
            /\ peer' = [peer EXCEPT !.pc = "to_csv"]
    /\ UNCHANGED <<pc, df_columns, df, index_name, pivoted, weekly_mean, output_filepath,
                   result, error, output_folder, fill_with, nb_cell, nb_names,
                   nb_error>>

\* weekly_mean.to_csv(output_filepath)
peer_to_csv ==
    /\ peer.pc = "to_csv"
    /\ IF OpenError(disk, Append(output_folder, OutputName)) = "none"
       THEN /\ disk' = WriteFile(disk, Append(output_folder, OutputName),
                                 peer.text)
            /\ peer' = [peer EXCEPT !.pc = "done"]
       ELSE /\ PeerRaise(OpenError(disk, Append(output_folder, OutputName)))
            /\ disk' = Abort(disk)
    /\ UNCHANGED <<pc, df_columns, df, index_name, pivoted, weekly_mean, output_filepath,
                   result, error, output_folder, fill_with, nb_cell, nb_names,
                   nb_error>>

\* Both calls on input files that the transform cells accept, so that no
\* call fails on its own
InitTwo ==
    /\ Fresh(OutputFolder, NA)
    /\ \E out \in { [dirs |-> {}, files |-> <<>>],
                    [dirs |-> {OutputFolder}, files |-> <<>>],
                    [dirs |-> {OutputFolder},
                     files |-> Append(OutputFolder, OutputName) :> StaleCsv] } :
          \E n \in 1..MaxTwoRows :
             \E t \in TablesOfLen(n) :
                /\ ~TransformFails(t)
                /\ disk = Disk(DataFilepath :> t, out)
    /\ \E t \in PeerTables :
          peer = [pc |-> "mkdir",
                  text |-> CsvText(Transform(t), "ReadingDateTime"),
                  error |-> "none"]

NextTwo ==
    \/ Next
    \/ peer_mkdir
    \/ peer_mkdir_parents
    \/ peer_to_csv

SpecTwo == InitTwo /\ [][NextTwo]_vars

----------------------------------------------------------------------------
\* The call on input files it cannot process: no file, a file without one of
\* its columns, timestamps that are no dates in rows that dropna keeps and in
\* rows that it removes

MaxBadRows == 3

BadPool ==
    { Row(T1, Some("NOX"), Some(40), ugm3),
      Row(T2, Some("PM10"), Some(12), ugm3),
      Row(T3, Some("NOX"), Some(60), ugm3),
      Row(NA, Some("PM10"), Some(12), ugm3),
      Row(Garbled, Some("NOX"), Some(40), ugm3),
      Row(Garbled, Some("PM10"), NA, ugm3),
      Row(Garbled, Some("NOX"), Some(60), NA) }

\* The file without the column c
DropColumn(t, c) ==
    [i \in 1..Len(t) |-> [f \in (DOMAIN t[i]) \ {c} |-> t[i][f]]]

InitInputs ==
    /\ Fresh(OutputFolder, NA)
    /\ peer = NoPeer
    /\ \E out \in OutputFolders :
          \/ disk = Disk(<<>>, out)
          \/ \E n \in 0..MaxBadRows :
                \E t \in [1..n -> BadPool] :
                   \/ disk = Disk(DataFilepath :> t, out)
                   \/ \E c \in Columns :
                         /\ n > 0
                         /\ disk = Disk(DataFilepath :> DropColumn(t, c), out)

SpecInputs == InitInputs /\ [][Next]_vars

----------------------------------------------------------------------------
\* The diamond notebook: its code cells run once each, top to bottom, in a
\* fresh kernel; the run stops at the first cell that raises.  A cell is the
\* line it starts at, the names it uses that it has not bound itself, the
\* names it binds, the packages it imports, and the folders and files it
\* lists, reads and writes.

NbCell(line, uses, binds, imports, lists, reads, writes) ==
    [line |-> line, uses |-> uses, binds |-> binds, imports |-> imports,
     lists |-> lists, reads |-> reads, writes |-> writes]

\* data_folder = path.join(path.abspath('..'), 'data')
DiamondFolder == <<"..", "data">>

\* diamond_file = path.join(data_folder, 'diamonds.csv')
DiamondFile == <<"..", "data", "diamonds.csv">>

\* diamond_file_clean = path.join(data_folder, 'diamonds_clean.csv')
DiamondFileClean == <<"..", "data", "diamonds_clean.csv">>

DiamondsCsv == [header |-> <<"carat", "price">>, rows |-> <<>>]

\* The packages the notebook imports, each a folder of site-packages when it
\* is installed
Packages == {"pandas", "seaborn", "matplotlib", "sklearn"}

SitePackages(installed) == {<<"site-packages", p>> : p \in installed}

NotebookCells ==
    << 
       NbCell(46, {},
              {"os", "path", "pd", "sns", "plt"},
              {"pandas", "seaborn", "matplotlib"}, {}, {}, {}),
       NbCell(73, {"os"},
              {},
              {}, {}, {}, {}),
       NbCell(90, {"path"},
              {"data_folder"},
              {}, {}, {}, {}),
       NbCell(101, {"os", "data_folder"},
              {},
              {}, {DiamondFolder}, {}, {}),
       NbCell(117, {"path", "data_folder", "pd"},
              {"diamond_file", "df"},
              {}, {}, {DiamondFile}, {}),
       NbCell(137, {"df"},
              {},
              {}, {}, {}, {}),
       NbCell(185, {"df"},
              {},
              {}, {}, {}, {}),
       NbCell(208, {"df"},
              {},
              {}, {}, {}, {}),
       NbCell(245, {"df"},
              {},
              {}, {}, {}, {}),
       NbCell(265, {"df"},
              {},
              {}, {}, {}, {}),
       NbCell(281, {"df"},
              {},
              {}, {}, {}, {}),
       NbCell(311, {"df"},
              {},
              {}, {}, {}, {}),
       NbCell(327, {"df"},
              {},
              {}, {}, {}, {}),
       NbCell(336, {"df"},
              {},
              {}, {}, {}, {}),
       NbCell(352, {"df"},
              {},
              {}, {}, {}, {}),
       NbCell(361, {"df"},
              {},
              {}, {}, {}, {}),
       NbCell(370, {"df"},
              {},
              {}, {}, {}, {}),
       NbCell(393, {"df"},
              {"df_clean"},
              {}, {}, {}, {}),
       NbCell(402, {"df_clean"},
              {},
              {}, {}, {}, {}),
       NbCell(411, {"df_clean"},
              {},
              {}, {}, {}, {}),
       NbCell(436, {"df_clean"},
              {},
              {}, {}, {}, {}),
       NbCell(466, {"df"},
              {},
              {}, {}, {}, {}),
       NbCell(498, {"sns", "df_clean", "plt"},
              {"g"},
              {}, {}, {}, {}),
       NbCell(518, {"df_clean", "sns"},
              {"corr"},
              {}, {}, {}, {}),
       NbCell(551, {"df_clean"},
              {},
              {}, {}, {}, {}),
       NbCell(560, {"df_clean"},
              {},
              {}, {}, {}, {}),
       NbCell(569, {"df_clean"},
              {},
              {}, {}, {}, {}),
       NbCell(585, {"sns", "df_clean"},
              {},
              {}, {}, {}, {}),
       NbCell(594, {"sns", "df_clean"},
              {},
              {}, {}, {}, {}),
       NbCell(610, {"sns", "df_clean"},
              {},
              {}, {}, {}, {}),
       NbCell(644, {"path", "data_folder", "df_clean"},
              {"diamond_file_clean"},
              {}, {}, {}, {DiamondFileClean}),
       NbCell(661, {"pd", "diamond_file_clean"},
              {},
              {}, {}, {DiamondFileClean}, {}),
       NbCell(684, {},
              {"train_test_split", "LinearRegression", "TransformedTargetRegressor", "QuantileTransformer", "mean_squared_error"},
              {"sklearn"}, {}, {}, {}),
       NbCell(714, {"df_clean"},
              {"x", "y"},
              {}, {}, {}, {}),
       NbCell(731, {"train_test_split", "x", "y"},
              {"x_train", "x_test", "y_train", "y_test"},
              {}, {}, {}, {}),
       NbCell(754, {"LinearRegression"},
              {"model"},
              {}, {}, {}, {}),
       NbCell(770, {"model", "x_train", "y_train"},
              {},
              {}, {}, {}, {}),
       NbCell(786, {"model", "x_test", "y_test"},
              {},
              {}, {}, {}, {}),
       NbCell(802, {"np", "model"},
              {"x_plot", "y_plot"},
              {}, {}, {}, {}),
       NbCell(812, {"plt", "df", "x_plot", "y_plot"},
              {"fig", "ax"},
              {}, {}, {}, {}),
       NbCell(830, {"model", "x_test", "y_test"},
              {"y_pred", "y_res"},
              {}, {}, {}, {}),
       NbCell(840, {"sns", "y_res"},
              {},
              {}, {}, {}, {}),
       NbCell(849, {"mean_squared_error", "y_test", "y_pred"},
              {},
              {}, {}, {}, {}),
       NbCell(879, {"TransformedTargetRegressor", "LinearRegression", "QuantileTransformer"},
              {"model"},
              {}, {}, {}, {}),
       NbCell(896, {"model", "x_train", "y_train"},
              {},
              {}, {}, {}, {}),
       NbCell(912, {"model", "x_test", "y_test"},
              {},
              {}, {}, {}, {}),
       NbCell(928, {"np", "model"},
              {"x_plot", "y_plot"},
              {}, {}, {}, {}),
       NbCell(938, {"plt", "df", "x_plot", "y_plot"},
              {"fig", "ax"},
              {}, {}, {}, {}),
       NbCell(956, {"model", "x_test", "y_test"},
              {"y_pred", "y_res"},
              {}, {}, {}, {}),
       NbCell(966, {"sns", "y_res"},
              {},
              {}, {}, {}, {}),
       NbCell(975, {"mean_squared_error", "y_test", "y_pred"},
              {},
              {}, {}, {}, {}) >>

\* The exception a cell raises on the kernel's names and the disk, "none"
\* when it runs through
CellError(c, names, d) ==
    IF ~(c.uses \subseteq names) THEN "NameError"
    ELSE IF ~(SitePackages(c.imports) \subseteq d.dirs) THEN "ModuleNotFoundError"
    ELSE IF ~(c.lists \subseteq d.dirs) THEN "FileNotFoundError"
    ELSE IF ~(c.reads \subseteq DOMAIN d.files) THEN "FileNotFoundError"
    ELSE "none"

run_cell ==
    /\ nb_error = "none"
    /\ nb_cell \in 1..Len(NotebookCells)
    /\ LET c == NotebookCells[nb_cell]
       IN  IF CellError(c, nb_names, disk) = "none"
           THEN /\ nb_names' = nb_names \cup c.binds
                /\ disk' = [disk EXCEPT !.files =
                               [p \in c.writes |-> DiamondsCsv] @@ @]
                /\ nb_cell' = nb_cell + 1
                /\ UNCHANGED nb_error
           ELSE /\ nb_error' = CellError(c, nb_names, disk)
                /\ UNCHANGED <<nb_cell, nb_names, disk>>
    /\ UNCHANGED <<pc, df_columns, df, index_name, pivoted, weekly_mean,
                   output_filepath, result, error, output_folder, fill_with,
                   peer>>

\* A fresh kernel on a machine with some of the packages and with or without
\* the data folder and the diamonds file
InitNotebook ==
    /\ nb_cell = 1
    /\ nb_names = {}
    /\ nb_error = "none"
    /\ \E installed \in SUBSET Packages :
          \E data \in { [dirs |-> {<<"..">>}, files |-> <<>>],
                         [dirs |-> Ancestors(DiamondFolder), files |-> <<>>],
                         [dirs |-> Ancestors(DiamondFolder),
                          files |-> DiamondFile :> DiamondsCsv] } :
             disk = [dirs |-> data.dirs \cup SitePackages(installed),
                     files |-> data.files,
                     deny_open |-> FALSE]
    /\ pc = "idle"
    /\ df_columns = {}
    /\ df = <<>>
    /\ index_name = "RangeIndex"
    /\ pivoted = EmptyTable
    /\ weekly_mean = EmptyTable
    /\ output_filepath = NA
    /\ result = NA
    /\ error = "none"
    /\ output_folder = OutputFolder
    /\ fill_with = NA
    /\ peer = NoPeer

NextNotebook == run_cell

SpecNotebook == InitNotebook /\ [][NextNotebook]_vars

----------------------------------------------------------------------------
\* Vocabulary of the properties

\* The rows of the input file
InputTable == disk.files[DataFilepath]

OutputPath == Append(OutputFolder, OutputName)

\* The tables are looked at in the state each cell leaves and again when the
\* call has returned
Flagged == pc \in {"mkdir", "done"}

Resampled == pc \in {"flag", "done"}

Pivoted == pc \in {"resample", "done"}

Cell(table, key, col) == table.cell[<<key, col>>]

\* The Sunday (00:00) closing the week of a timestamp
WeekEnding(ts) ==
    CHOOSE l \in (Normalize(ts))..(Normalize(ts) + WeekHours - 1) :
        l % WeekHours = (DaysPerWeek - 1) * HoursPerDay

\* Sum of the fractions f[x], x in S
RECURSIVE SumOver(_, _)
SumOver(S, f) ==
    IF S = {} THEN FracOfInt(0)
    ELSE LET x == CHOOSE y \in S : TRUE
         IN  FracAdd(f[x], SumOver(S \ {x}, f))

\* v is the arithmetic mean of the fractions f[x], x in S (missing for none)
IsMeanOver(v, S, f) ==
    IF S = {} THEN IsNA(v)
    ELSE /\ ~IsNA(v)
         /\ LET total == SumOver(S, f)
            IN  Get(v).num * total.den * Cardinality(S)
                    = total.num * Get(v).den

----------------------------------------------------------------------------
C2_HazardousIsNoxAbove50 ==
    Flagged =>
        \A l \in SeqToSet(weekly_mean.index) :
            LET nox == Cell(weekly_mean, l, "NOX")
                hazardous == Cell(weekly_mean, l, "Hazardous")
            IN  /\ hazardous \in BOOLEAN
                /\ hazardous <=>
                     (~IsNA(nox) /\ Get(nox).num > HazardThreshold * Get(nox).den)
                /\ nox = Some(FracOfInt(HazardThreshold)) => ~hazardous

C2_Witness ==
    /\ pc = "done"
    /\ \E l \in SeqToSet(weekly_mean.index) :
          /\ Cell(weekly_mean, l, "NOX") = Some(FracOfInt(HazardThreshold))
          /\ ~Cell(weekly_mean, l, "Hazardous")
    /\ \E l \in SeqToSet(weekly_mean.index) : Cell(weekly_mean, l, "Hazardous")

\* C3: every cell of the Resampled Table is the arithmetic mean of the
\* non-missing Wide Table values of its category whose timestamps lie in the
\* week that the row's label closes; the spec's example (NOX 40 and 60, PM10
\* 10 and 12 in one week) gives one row: NOX 50, PM10 11, Hazardous false.
ExampleTable ==
    << Row(T1, Some("NOX"), Some(40), ugm3),
       Row(T1, Some("PM10"), Some(10), ugm3),
       Row(T2, Some("NOX"), Some(60), ugm3),
       Row(T2, Some("PM10"), Some(12), ugm3) >>

C3_CellIsBucketMean ==
    /\ Resampled =>
         /\ \A l \in SeqToSet(weekly_mean.index) :
              \A c \in SeqToSet(pivoted.columns) :
                 LET S == {ts \in SeqToSet(pivoted.index) :
                              /\ WeekEnding(ts) = l
                              /\ ~IsNA(Cell(pivoted, ts, c))}
                     f == [ts \in S |-> Get(Cell(pivoted, ts, c))]
                 IN  IsMeanOver(Cell(weekly_mean, l, c), S, f)
         /\ \A ts \in SeqToSet(pivoted.index) :
              WeekEnding(ts) \in SeqToSet(weekly_mean.index)
    /\ (Flagged /\ InputTable = ExampleTable) =>
         /\ Len(weekly_mean.index) = 1
         /\ \A l \in SeqToSet(weekly_mean.index) :
              /\ Cell(weekly_mean, l, "NOX") = Some(FracOfInt(50))
              /\ Cell(weekly_mean, l, "PM10") = Some(FracOfInt(11))
              /\ Cell(weekly_mean, l, "Hazardous") = FALSE

C3_Witness ==
    /\ pc = "done"
    /\ InputTable = ExampleTable
    /\ weekly_mean.index = <<WeekEnding(ParseDateTime(Get(T2)))>>
    /\ ParseDateTime(Get(T2)) > weekly_mean.index[1]

\* C4: the Resampled Table does not depend on the order of the input rows:
\* every permutation of the input file's rows goes through the cells without
\* failure and gives the same buckets, columns, cell values and flags.
Permuted(t, p) == [i \in 1..Len(t) |-> t[p[i]]]

C4_OrderIndependent ==
    pc = "mkdir" =>
        \A p \in Permutations(1..Len(InputTable)) :
            /\ ~TransformFails(Permuted(InputTable, p))
            /\ Transform(Permuted(InputTable, p)) = weekly_mean

\* Two readings of one (timestamp, category) pair and a later reading that
\* comes first in the file
C4_Witness ==
    /\ pc = "done"
    /\ \E i, j, k \in 1..Len(InputTable) :
          /\ i < j /\ i < k /\ j # k
          /\ InputTable[i].ReadingDateTime = T3
          /\ InputTable[j].ReadingDateTime = T1
          /\ InputTable[k].ReadingDateTime = T1Date
          /\ InputTable[j].Species = InputTable[k].Species
          /\ InputTable[j].Value # InputTable[k].Value
          /\ \A n \in {i, j, k} : \A c \in Columns : ~IsNA(InputTable[n][c])

\* The records of df with a given timestamp and category
RecordsAt(ts, sp) ==
    {i \in 1..Len(df) : /\ df[i].ReadingDateTime = Some(ts)
                        /\ df[i].Species = Some(sp)}

ValueOf == [i \in 1..Len(df) |-> FracOfInt(Get(df[i].Value))]

\* C5 as stated: every record left by the missing-row filter is found again in
\* the Wide Table (the cell at its timestamp and category holds its value),
\* and every non-missing cell is the value of such a record.
C5_PivotPreservesTriples ==
    pc = "resample" =>
        /\ \A i \in 1..Len(df) :
              /\ Get(df[i].ReadingDateTime) \in SeqToSet(pivoted.index)
              /\ Get(df[i].Species) \in SeqToSet(pivoted.columns)
              /\ Cell(pivoted, Get(df[i].ReadingDateTime), Get(df[i].Species))
                    = Some(ValueOf[i])
        /\ \A ts \in SeqToSet(pivoted.index) :
              \A sp \in SeqToSet(pivoted.columns) :
                 ~IsNA(Cell(pivoted, ts, sp)) =>
                     \E i \in RecordsAt(ts, sp) :
                         Cell(pivoted, ts, sp) = Some(ValueOf[i])

\* C5 as it holds: every (timestamp, category) pair left by the filter is a
\* cell of the Wide Table, holding the arithmetic mean of the values of the
\* records of that pair (the record's own value when the pair occurs once or
\* its records agree); every non-missing cell belongs to such a pair.
C5_PivotCellIsGroupMean ==
    pc = "resample" =>
        /\ \A i \in 1..Len(df) :
              /\ Get(df[i].ReadingDateTime) \in SeqToSet(pivoted.index)
              /\ Get(df[i].Species) \in SeqToSet(pivoted.columns)
        /\ \A ts \in SeqToSet(pivoted.index) :
              \A sp \in SeqToSet(pivoted.columns) :
                 LET group == RecordsAt(ts, sp)
                     v == Cell(pivoted, ts, sp)
                 IN  /\ IsMeanOver(v, group, ValueOf)
                     /\ (\A i, j \in group : ValueOf[i] = ValueOf[j]) =>
                            \A i \in group : v = Some(ValueOf[i])

\* A pair read once next to a pair read twice with different values
C5_Witness ==
    /\ pc = "resample"
    /\ \E ts \in SeqToSet(pivoted.index) :
          \E a, b \in SeqToSet(pivoted.columns) :
              /\ Cardinality(RecordsAt(ts, a)) = 1
              /\ Cardinality(RecordsAt(ts, b)) = 2
              /\ \E i, j \in RecordsAt(ts, b) : ValueOf[i] # ValueOf[j]

\* C6: dropna keeps exactly the input rows with no missing field, in their
\* order in the file; a row missing only a field other than the value is
\* dropped, and no Wide Table cell or weekly mean counts it.
NoFieldMissing(r) == \A c \in DOMAIN r : r[c] # NA

CompleteRows == {i \in 1..Len(InputTable) : NoFieldMissing(InputTable[i])}

\* The k-th complete row of the input file
NthComplete(k) ==
    CHOOSE i \in CompleteRows : Cardinality({j \in CompleteRows : j <= i}) = k

CompleteAt(ts, sp) ==
    {i \in CompleteRows :
        /\ ParseDateTime(Get(InputTable[i].ReadingDateTime)) = ts
        /\ InputTable[i].Species = Some(sp)}

CompleteIn(label, sp) ==
    {ts \in SeqToSet(pivoted.index) :
        WeekEnding(ts) = label /\ CompleteAt(ts, sp) # {}}

InputValue == [i \in 1..Len(InputTable) |-> FracOfInt(Get(InputTable[i].Value))]

C6_DropsIncompleteRows ==
    /\ pc = "astype" =>
         /\ Len(df) = Cardinality(CompleteRows)
         /\ \A k \in 1..Len(df) : df[k] = InputTable[NthComplete(k)]
    /\ Pivoted =>
         \A ts \in SeqToSet(pivoted.index) :
            \A sp \in SeqToSet(pivoted.columns) :
               IsMeanOver(Cell(pivoted, ts, sp), CompleteAt(ts, sp), InputValue)
    /\ Resampled =>
         \A l \in SeqToSet(weekly_mean.index) :
            \A sp \in SeqToSet(pivoted.columns) :
               IsNA(Cell(weekly_mean, l, sp)) <=> CompleteIn(l, sp) = {}

\* A row with timestamp, category and value but no unit is dropped, and its
\* week has no mean of its category
C6_Witness ==
    /\ pc = "done"
    /\ \E i \in 1..Len(InputTable) :
          LET r == InputTable[i]
          IN  /\ IsNA(r.Units)
              /\ ~IsNA(r.Value) /\ ~IsNA(r.Species)
              /\ ~IsNA(r.ReadingDateTime) /\ Parsable(Get(r.ReadingDateTime))
              /\ Len(df) < Len(InputTable)
              /\ Get(r.Species) \in SeqToSet(pivoted.columns)
              /\ \E l \in SeqToSet(weekly_mean.index) :
                    /\ l = WeekEnding(ParseDateTime(Get(r.ReadingDateTime)))
                    /\ IsNA(Cell(weekly_mean, l, Get(r.Species)))

\* C7: dropna is idempotent: applied to the table it has already cleaned, it
\* removes no further row.
C7_DropNaIdempotent ==
    pc = "astype" =>
        /\ DropNa(df) = df
        /\ Len(DropNa(df)) = Len(df)

\* The first pass did remove rows, and left some
C7_Witness ==
    /\ pc = "astype"
    /\ Len(df) >= 2
    /\ Len(df) + 2 <= Len(InputTable)

\* C8: when the input has a fully-populated row, every row of the written
\* output carries a timestamp (the label of its week), none is missing.
C8_NoMissingTimestamps ==
    (pc = "done" /\ CompleteRows # {}) =>
        /\ \A i \in 1..Len(disk.files[OutputPath].rows) :
              LET key == disk.files[OutputPath].rows[i].key
              IN  /\ ~IsNA(key)
                  /\ Parsable(Get(key))
                  /\ ParseDateTime(Get(key)) = weekly_mean.index[i]
        /\ Len(disk.files[OutputPath].rows) = Len(weekly_mean.index)
        /\ Head(disk.files[OutputPath].header) = "ReadingDateTime"

\* The input had a row without timestamp, and the output has rows
C8_Witness ==
    /\ pc = "done"
    /\ \E i \in 1..Len(InputTable) : IsNA(InputTable[i].ReadingDateTime)
    /\ CompleteRows # {}
    /\ Len(disk.files[OutputPath].rows) >= 2

\* C9: the Wide Table has one column for each distinct category of the rows
\* that dropna left, and no other; its rows are the distinct timestamps of
\* those rows in ascending order.
C9_WideTableShape ==
    Pivoted =>
        /\ SeqToSet(pivoted.columns) = {Get(df[i].Species) : i \in 1..Len(df)}
        /\ \A i, j \in 1..Len(pivoted.columns) :
              i # j => pivoted.columns[i] # pivoted.columns[j]
        /\ SeqToSet(pivoted.index)
              = {Get(df[i].ReadingDateTime) : i \in 1..Len(df)}
        /\ \A i, j \in 1..Len(pivoted.index) :
              i < j => pivoted.index[i] < pivoted.index[j]
        /\ \A sp \in SeqToSet(pivoted.columns) :
              \E i \in CompleteRows : InputTable[i].Species = Some(sp)
        /\ \A i \in CompleteRows :
              Get(InputTable[i].Species) \in SeqToSet(pivoted.columns)

\* A category met only in a dropped row, and a later timestamp that comes
\* first in the file
C9_Witness ==
    /\ pc = "done"
    /\ \E i \in 1..Len(InputTable) :
          /\ ~IsNA(InputTable[i].Species)
          /\ Get(InputTable[i].Species) \notin SeqToSet(pivoted.columns)
    /\ \E i, j \in CompleteRows :
          /\ i < j
          /\ ParseDateTime(Get(InputTable[i].ReadingDateTime))
                > ParseDateTime(Get(InputTable[j].ReadingDateTime))
    /\ Len(pivoted.columns) = 1
    /\ Len(pivoted.index) >= 2

\* C10: the Resampled Table has one row for each week from the week of the
\* earliest surviving timestamp to the week of the latest: the labels go up
\* by exactly one week, every surviving timestamp lies in exactly one week,
\* and a week without readings is a row of missing values.
C10_ContiguousBuckets ==
    (Resampled /\ pivoted.index # <<>>) =>
        LET labels == weekly_mean.index
            first == pivoted.index[1]
            last == pivoted.index[Len(pivoted.index)]
        IN  /\ labels # <<>>
            /\ labels[1] = WeekEnding(first)
            /\ labels[Len(labels)] = WeekEnding(last)
            /\ \A i \in 1..(Len(labels) - 1) :
                  labels[i + 1] = labels[i] + WeekHours
            /\ \A ts \in SeqToSet(pivoted.index) :
                  Cardinality({i \in 1..Len(labels) :
                                  /\ labels[i] - WeekHours < Normalize(ts)
                                  /\ Normalize(ts) <= labels[i]}) = 1
            /\ \A i \in 1..Len(labels) :
                  (\A ts \in SeqToSet(pivoted.index) : WeekEnding(ts) # labels[i])
                     => \A sp \in SeqToSet(pivoted.columns) :
                           IsNA(Cell(weekly_mean, labels[i], sp))

\* Three weeks, the middle one without readings
C10_Witness ==
    /\ pc = "done"
    /\ Len(weekly_mean.index) = 3
    /\ \A ts \in SeqToSet(pivoted.index) : WeekEnding(ts) # weekly_mean.index[2]
    /\ \A sp \in SeqToSet(pivoted.columns) :
          IsNA(Cell(weekly_mean, weekly_mean.index[2], sp))
    /\ ~Cell(weekly_mean, weekly_mean.index[2], "Hazardous")

----------------------------------------------------------------------------
\* The files of a folder
FilesIn(d, folder) == {p \in DOMAIN d.files : Parent(p) = folder}

\* C11: making the output folder is idempotent.  When the folder is absent,
\* the step makes it and every missing parent and touches nothing else; when
\* the folder is there, the step succeeds and leaves the disk as it was; and
\* in both cases the folder is there when to_csv starts and when a file is
\* written.
C11_MkdirIdempotent ==
    [][ /\ (pc = "mkdir" /\ output_folder \in disk.dirs)
              => (pc' = "to_csv" /\ disk' = disk)
        /\ (pc = "mkdir" /\ ~Exists(disk, output_folder))
              => (pc' = "mkdir_parents" /\ disk' = disk)
        /\ pc = "mkdir_parents"
              => /\ pc' = "to_csv"
                 /\ disk'.dirs = disk.dirs \cup Ancestors(output_folder)
                 /\ disk'.files = disk.files
        /\ (pc' = "to_csv" /\ output_folder \notin DOMAIN disk.files)
              => output_folder \in disk'.dirs
        /\ disk'.files # disk.files => output_folder \in disk.dirs
      ]_vars

\* The folder and its missing parent were made, and the output is in it
C11_Witness ==
    /\ pc = "done"
    /\ output_folder = NestedFolder
    /\ Ancestors(NestedFolder) \subseteq disk.dirs
    /\ FilesIn(disk, NestedFolder) = {Append(NestedFolder, OutputName)}

----------------------------------------------------------------------------
C12_WitnessDefault ==
    /\ pc = "done"
    /\ fill_with = Some(NA)
    /\ LET means == Transform(InputTable)
           rows == disk.files[Append(output_folder, OutputName)].rows
       IN  /\ Len(rows) = 1
           /\ means.cell[<<means.index[1], "NOX">>] = Some(Frac(0, 1))
           /\ rows[1].fields[1] = NA

----------------------------------------------------------------------------
\* C13 as stated: of two calls with the same output folder, neither fails,
\* and once both are done the output file holds the whole output of one of
\* them.
C13_BothCompleteLastWriterWins ==
    /\ pc # "failed"
    /\ peer.pc # "failed"
    /\ (pc = "done" /\ peer.pc = "done")
          => disk.files[Append(output_folder, OutputName)]
                \in {CsvText(weekly_mean, index_name), peer.text}

\* Both calls found the folder absent; the one that came second to mkdir
\* failed and wrote nothing
C13_MkdirRaceLost ==
    /\ pc = "done"
    /\ peer.pc = "failed"
    /\ peer.error = "FileExistsError"
    /\ disk.files[Append(output_folder, OutputName)]
          = CsvText(weekly_mean, index_name)

----------------------------------------------------------------------------
\* C14: a failure ends the call at once, with nothing tried again and nothing
\* cleaned up: the failing step raises an exception and leaves the disk as it
\* found it, no step follows it and nothing is handed back.  The folder that
\* mkdir has made is there and empty when to_csv starts, so it stays there,
\* empty, when to_csv fails.
C14_AbortsWithoutCleanup ==
    [][ /\ pc # "failed"
        /\ pc' = "failed"
              => /\ error' # "none"
                 /\ disk' = disk
                 /\ result' = NA
        /\ pc = "mkdir_parents"
              => /\ output_folder \in disk'.dirs
                 /\ FilesIn(disk', output_folder) = {}
        /\ (pc = "to_csv" /\ pc' = "failed" /\ output_folder \in disk.dirs)
              => /\ output_folder \in disk'.dirs
                 /\ FilesIn(disk', output_folder) = FilesIn(disk, output_folder)
                 /\ disk'.files = disk.files
      ]_vars

\* to_csv failed in a folder that is there, with its missing parent, and
\* holds no file
C14_Witness ==
    /\ pc = "failed"
    /\ error = "PermissionError"
    /\ output_folder = NestedFolder
    /\ Ancestors(NestedFolder) \subseteq disk.dirs
    /\ FilesIn(disk, NestedFolder) = {}
    /\ result = NA

----------------------------------------------------------------------------
\* The rows of the input file that dropna keeps and whose timestamp is no date
UnparsableKept ==
    {i \in 1..Len(InputTable) :
        /\ NoFieldMissing(InputTable[i])
        /\ InputTable[i].ReadingDateTime = Garbled}

\* The rows that dropna removes and whose timestamp is no date
UnparsableDropped ==
    {i \in 1..Len(InputTable) :
        /\ ~NoFieldMissing(InputTable[i])
        /\ InputTable[i].ReadingDateTime = Garbled}

\* C15: once the astype cell has run on a file with a timestamp column, the
\* call has failed with ValueError exactly when a row that dropna keeps has a
\* timestamp that is no date; such a timestamp in a row that dropna removes
\* makes no difference.  After that failure the disk holds no output file
\* beyond the one an earlier run left.
C15_ParseFailsOnKeptRows ==
    (/\ DataFilepath \in DOMAIN disk.files
     /\ "ReadingDateTime" \in Header(InputTable)
     /\ pc \notin {"read_csv", "dropna", "astype"})
        => /\ (pc = "failed" /\ error = "ValueError") <=> UnparsableKept # {}
           /\ error = "ValueError"
                 => \A p \in DOMAIN disk.files :
                       p = DataFilepath \/ disk.files[p] = StaleCsv

\* A run to the end on a file with an unreadable timestamp in a row that
\* dropna removed
C15_Witness ==
    /\ pc = "done"
    /\ "ReadingDateTime" \in Header(InputTable)
    /\ UnparsableDropped # {}
    /\ UnparsableKept = {}

\* A failed run: the second row that dropna keeps has the unreadable timestamp
C15_WitnessFailed ==
    /\ pc = "failed"
    /\ error = "ValueError"
    /\ "ReadingDateTime" \in Header(InputTable)
    /\ UnparsableDropped # {}
    /\ 1 \notin UnparsableKept
    /\ UnparsableKept # {}
    /\ ~Exists(disk, OutputFolder)

----------------------------------------------------------------------------
\* The cells that read and transform
ReadTransformCells ==
    {"read_csv", "dropna", "astype", "set_index", "pivot_table", "resample",
     "flag"}

\* C16: the disk changes in the mkdir and to_csv cells only, and they run
\* only when every cell before them went through: the input file was there
\* with its timestamp, category and value columns, no row that dropna keeps
\* has an unreadable timestamp, and the flag is in the table.  A step of a
\* read or transform cell, failing or not, leaves the disk as it was; the
\* input file keeps its content through every step.
C16_DiskUntouchedUntilTransformed ==
    [][ /\ pc \in ReadTransformCells => disk' = disk
        /\ disk' # disk => pc \in {"mkdir_parents", "to_csv"}
        /\ pc \in {"mkdir", "mkdir_parents", "to_csv"}
              => /\ error = "none"
                 /\ DataFilepath \in DOMAIN disk.files
                 /\ {"ReadingDateTime", "Species", "Value"}
                       \subseteq Header(InputTable)
                 /\ UnparsableKept = {}
                 /\ "Hazardous" \in SeqToSet(weekly_mean.columns)
        /\ DataFilepath \in DOMAIN disk'.files
              <=> DataFilepath \in DOMAIN disk.files
        /\ DataFilepath \in DOMAIN disk.files
              => disk'.files[DataFilepath] = disk.files[DataFilepath]
      ]_vars

\* The call failed on a file without its Value column; there is no output
\* folder
C16_Witness ==
    /\ pc = "failed"
    /\ error = "KeyError"
    /\ DataFilepath \in DOMAIN disk.files
    /\ InputTable # <<>>
    /\ "Value" \notin Header(InputTable)
    /\ ~Exists(disk, OutputFolder)

\* The call failed for want of its input file
C16_WitnessNoInput ==
    /\ pc = "failed"
    /\ error = "FileNotFoundError"
    /\ DataFilepath \notin DOMAIN disk.files
    /\ ~Exists(disk, OutputFolder)

\* The call wrote its output and the input file is as it was
C16_WitnessWritten ==
    /\ pc = "done"
    /\ Exists(disk, Append(OutputFolder, OutputName))
    /\ disk.files[Append(OutputFolder, OutputName)] # StaleCsv
    /\ Len(InputTable) = MaxBadRows

----------------------------------------------------------------------------
\* The field of a written row under the column label col
Field(csv, i, col) ==
    csv.rows[i].fields[CHOOSE j \in 1..Len(csv.rows[i].fields) :
                          csv.header[j + 1] = col]

\* C17: in every row of the written file the Hazardous field is True or
\* False, never missing, and it is False in the rows whose NOX field is
\* missing: the weeks without any reading and the weeks without a NOX reading.
C17_FlagIsDefinite ==
    (pc = "done" /\ IsNA(fill_with)) =>
        LET csv == disk.files[Append(output_folder, OutputName)]
        IN  /\ "NOX" \in SeqToSet(csv.header)
            /\ "Hazardous" \in SeqToSet(csv.header)
            /\ \A i \in 1..Len(csv.rows) :
                  /\ Field(csv, i, "Hazardous") \in BOOLEAN
                  /\ Field(csv, i, "NOX") = NA
                        => Field(csv, i, "Hazardous") = FALSE

\* Three weeks written: PM10 readings only, no reading at all, a NOX reading
C17_Witness ==
    /\ pc = "done"
    /\ LET csv == disk.files[Append(output_folder, OutputName)]
       IN  /\ csv.header = <<"ReadingDateTime", "NOX", "PM10", "Hazardous">>
           /\ Len(csv.rows) = 3
           /\ csv.rows[1].fields = <<NA, Some(FracOfInt(10)), FALSE>>
           /\ csv.rows[2].fields = <<NA, NA, FALSE>>
           /\ csv.rows[3].fields = <<Some(FracOfInt(60)), NA, TRUE>>

----------------------------------------------------------------------------
\* C18 as stated: in the run of the diamond notebook, the cell about to run
\* uses only names that an earlier cell has imported or assigned (the names
\* it binds itself before using them apart), and no cell ends in NameError.
C18_NamesBoundBeforeUse ==
    /\ nb_error # "NameError"
    /\ (nb_cell \in 1..Len(NotebookCells) /\ nb_error = "none")
          => NotebookCells[nb_cell].uses \subseteq nb_names

\* The run has come to the cell of line 802 with every package installed and
\* the data in place; the cell uses np, which no cell has imported
C18_NpUnbound ==
    /\ nb_error = "NameError"
    /\ NotebookCells[nb_cell].line = 802
    /\ NotebookCells[nb_cell].uses \ nb_names = {"np"}

====
